---- MODULE Spec2Model ----
(***************************************************************************)
(* HVAC telemetry store: the catalog / measurement / device_state schema   *)
(* of alembic/versions/002_init_hvac_timescale.py, the heartbeat handler   *)
(* of lambda_function.py running as concurrent PostgreSQL transactions     *)
(* (READ COMMITTED, row locks held until commit or rollback), and the      *)
(* derived views v_point_latest and v_devices_stale.                       *)
(***************************************************************************)
EXTENDS Integers, Sequences, FiniteSets, TLC

VARIABLES
    sites,            \* table sites: set of site ids
    devices,          \* table devices: set of [device_id, site_id]
    points,           \* table points: set of [point_id, site_id, device_id, point_name]
    measurements,     \* table measurements: set of [site_id, point_id, ts_utc, value]
    device_state,     \* table device_state, committed row versions
    v_point_latest,   \* materialized view v_point_latest, as of its last refresh
    stale_rows,       \* rows fetched by the last stale-devices query
    clock,            \* wall clock, seconds
    pc,               \* per handler call: "idle", "loop", "done"
    event,            \* per handler call: the event it was invoked with
    idx,              \* per handler call: position in devices_to_update
    txn_now,          \* per handler call: NOW() of its transaction
    pending,          \* per handler call: row versions written, not yet committed
    superseded,       \* per handler call: committed versions its updates replace
    updated_devices,  \* per handler call: the list built by the loop
    response,         \* per handler call: the dict returned
    calls             \* number of handler invocations so far

vars == <<sites, devices, points, measurements, device_state, v_point_latest,
          stale_rows, clock, pc, event, idx, txn_now, pending, superseded,
          updated_devices, response, calls>>

catalogVars == <<sites, devices, points, measurements>>
viewVars == <<v_point_latest, stale_rows>>
handlerVars == <<pc, event, idx, txn_now, pending, superseded, updated_devices, response, calls>>

----------------------------------------------------------------------------
(* Bounds *)

MaxClock == 1
MaxCalls == 2
MaxSeen == 2
MaxTs == 1

(* Program constants *)

StaleThreshold == 120

----------------------------------------------------------------------------
(* Values *)

NULL == "NULL"

Handlers == {"h1", "h2"}

StatusEnum == {"ready", "degraded", "error"}

OptionalFields == {"status", "agent_version", "cpu_pct", "disk_free_gb",
                   "queue_depth", "poll_interval_s", "last_upload_ts"}

SeedSites == {"s1"}
SeedDevices == {[device_id |-> "d1", site_id |-> "s1"],
                [device_id |-> "d2", site_id |-> "s1"]}
SeedPoints == {[point_id |-> "p1", site_id |-> "s1", device_id |-> "d1", point_name |-> "supply_temp"],
               [point_id |-> "p2", site_id |-> "s1", device_id |-> NULL, point_name |-> "return_temp"]}
SeedMeasurements == {[site_id |-> "s1", point_id |-> "p1", ts_utc |-> 0, value |-> "20.5"]}

DeviceIds(devs) == {d.device_id : d \in devs}

\* A heartbeat record as event.get(...) sees it: an absent key reads as NULL.
Entry(dev, site, st, ver, cpu, disk, q, poll, up) ==
    [device_id |-> dev, site_id |-> site, status |-> st, agent_version |-> ver,
     cpu_pct |-> cpu, disk_free_gb |-> disk, queue_depth |-> q,
     poll_interval_s |-> poll, last_upload_ts |-> up]

\* Heartbeat records used as inputs.
HbFull == Entry("d1", "s1", "ready", "1.0.0", "25.5", NULL, NULL, NULL, NULL)
HbStatusOnly == Entry("d1", "s1", "degraded", NULL, NULL, NULL, NULL, NULL, NULL)
HbOther == Entry("d2", "s1", NULL, NULL, NULL, "45.2", "10", "30", "t0")
HbBadStatus == Entry("d1", "s1", "bogus", NULL, NULL, NULL, NULL, NULL, NULL)
HbNoSuchSite == Entry("d1", "s9", NULL, NULL, "99.0", NULL, NULL, NULL, NULL)
HbNoSuchDevice == Entry("d3", "s1", "ready", NULL, NULL, NULL, NULL, NULL, NULL)
HbMoved == Entry("d1", "s2", "error", NULL, NULL, NULL, NULL, NULL, NULL)
HbNoDeviceId == Entry(NULL, "s1", "ready", NULL, NULL, NULL, NULL, NULL, NULL)
HbNoSiteId == Entry("d2", NULL, "error", NULL, NULL, NULL, NULL, NULL, NULL)

Entries == {HbFull, HbStatusOnly, HbOther, HbBadStatus, HbNoSuchSite,
            HbNoSuchDevice, HbNoDeviceId, HbNoSiteId}

SingleEvents == {[kind |-> "single", devices |-> <<e>>] : e \in Entries}
BatchEvents ==
    {[kind |-> "batch", devices |-> b] :
        b \in { <<HbFull, HbOther>>, <<HbOther, HbStatusOnly>>,
                <<HbNoSiteId, HbOther, HbNoDeviceId>>,
                <<HbOther, HbBadStatus>>, <<HbStatusOnly, HbFull>> }}
Events == SingleEvents \cup BatchEvents

NotQueried == [queried |-> FALSE, now |-> 0, rows |-> <<>>]
NoEvent == [kind |-> "none", devices |-> <<>>]
NoResponse == [statusCode |-> 0, error |-> "", message |-> "", count |-> 0, updated_devices |-> <<>>]

----------------------------------------------------------------------------
(* Initial state: migrated schema, seeded catalog, no heartbeat yet *)

\* No handler call has been made.
NoCallYet ==
    /\ pc = [h \in Handlers |-> "idle"]
    /\ event = [h \in Handlers |-> NoEvent]
    /\ idx = [h \in Handlers |-> 1]
    /\ txn_now = [h \in Handlers |-> -1]
    /\ pending = [h \in Handlers |-> {}]
    /\ superseded = [h \in Handlers |-> {}]
    /\ updated_devices = [h \in Handlers |-> <<>>]
    /\ response = [h \in Handlers |-> NoResponse]
    /\ calls = 0

Init ==
    /\ sites = SeedSites
    /\ devices = SeedDevices
    /\ points = SeedPoints
    /\ measurements = SeedMeasurements
    /\ device_state = {}
    /\ v_point_latest = {}
    /\ stale_rows = NotQueried
    /\ clock = 0
    /\ NoCallYet

----------------------------------------------------------------------------
(* device_state: rows, constraints, and the upsert statement *)

\* `not device_id or not site_id`
MissingIds(e) == e.device_id = NULL \/ e.site_id = NULL

\* CHECK (status IN ('ready','degraded','error')): a NULL status passes.
StatusCheck(st) == st = NULL \/ st \in StatusEnum

\* FOREIGN KEY (device_id) -> devices, (site_id) -> sites, of an inserted row.
ForeignKeysHold(row, sts, devs) ==
    /\ row.device_id \in DeviceIds(devs)
    /\ row.site_id \in sts

\* COALESCE(EXCLUDED.x, device_state.x)
Coalesce_Replace(excluded, stored) == excluded
Coalesce(excluded, stored) == IF excluded # NULL THEN excluded ELSE stored

\* The VALUES (...) row of the INSERT.
ProposedRow(e, now) ==
    [device_id |-> e.device_id, site_id |-> e.site_id, last_seen_ts |-> now,
     status |-> e.status, agent_version |-> e.agent_version, cpu_pct |-> e.cpu_pct,
     disk_free_gb |-> e.disk_free_gb, queue_depth |-> e.queue_depth,
     poll_interval_s |-> e.poll_interval_s, last_upload_ts |-> e.last_upload_ts,
     updated_at |-> now]

\* The DO UPDATE SET list: site_id and device_id are not in it.
UpdatedRow_Moves(stored, e, now) ==
    [device_id |-> stored.device_id, site_id |-> e.site_id, last_seen_ts |-> now,
     status |-> Coalesce(e.status, stored.status),
     agent_version |-> Coalesce(e.agent_version, stored.agent_version),
     cpu_pct |-> Coalesce(e.cpu_pct, stored.cpu_pct),
     disk_free_gb |-> Coalesce(e.disk_free_gb, stored.disk_free_gb),
     queue_depth |-> Coalesce(e.queue_depth, stored.queue_depth),
     poll_interval_s |-> Coalesce(e.poll_interval_s, stored.poll_interval_s),
     last_upload_ts |-> Coalesce(e.last_upload_ts, stored.last_upload_ts),
     updated_at |-> now]
UpdatedRow(stored, e, now) ==
    [device_id |-> stored.device_id, site_id |-> stored.site_id, last_seen_ts |-> now,
     status |-> Coalesce(e.status, stored.status),
     agent_version |-> Coalesce(e.agent_version, stored.agent_version),
     cpu_pct |-> Coalesce(e.cpu_pct, stored.cpu_pct),
     disk_free_gb |-> Coalesce(e.disk_free_gb, stored.disk_free_gb),
     queue_depth |-> Coalesce(e.queue_depth, stored.queue_depth),
     poll_interval_s |-> Coalesce(e.poll_interval_s, stored.poll_interval_s),
     last_upload_ts |-> Coalesce(e.last_upload_ts, stored.last_upload_ts),
     updated_at |-> now]

\* Devices whose device_state row a transaction has written and so holds locked.
Locked(h) == {r.device_id : r \in pending[h]}

\* The row lock of device d can be taken by h: no other open transaction holds it.
RowLockFree_NoLock(h, d) == TRUE
RowLockFree(h, d) == \A g \in Handlers \ {h} : d \notin Locked(g)

\* Row versions of device d that h's statement sees: its own write, else the
\* latest committed version (READ COMMITTED).
VisibleRows(h, d) ==
    IF d \in Locked(h) THEN {r \in pending[h] : r.device_id = d}
    ELSE {r \in device_state : r.device_id = d}

\* ON CONFLICT (device_id): the rows the primary key arbitrates against.
ConflictRows_None(h, d) == {}
ConflictRows(h, d) == VisibleRows(h, d)

CurrentEntry(h) == event[h].devices[idx[h]]
HasEntry(h) == pc[h] = "loop" /\ idx[h] <= Len(event[h].devices)

\* updated_devices after the loop body ran for entry e.
NextUpdated_Always(upd, e) == Append(upd, e.device_id)
NextUpdated(upd, e) == IF MissingIds(e) THEN upd ELSE Append(upd, e.device_id)

ErrorResponse(code, err, msg) ==
    [statusCode |-> code, error |-> err, message |-> msg, count |-> 0,
     updated_devices |-> <<>>]

SuccessResponse(upd) ==
    [statusCode |-> 200, error |-> "", message |-> "Heartbeat updated",
     count |-> Len(upd), updated_devices |-> upd]

\* h waits for g: h's next statement needs a row lock that g holds.
WaitsFor(h, g) ==
    /\ h # g
    /\ HasEntry(h)
    /\ txn_now[h] >= 0
    /\ ~MissingIds(CurrentEntry(h))
    /\ CurrentEntry(h).device_id \in Locked(g)

RECURSIVE WaitReach(_, _)
WaitReach(from, n) ==
    IF n = 0 THEN from
    ELSE WaitReach(from \cup {g \in Handlers : \E f \in from : WaitsFor(f, g)}, n - 1)

\* h is on a cycle of the wait-for graph.
InDeadlock(h) ==
    h \in WaitReach({g \in Handlers : WaitsFor(h, g)}, Cardinality(Handlers))

\* Leaving the handler through an except branch: the connection is dropped
\* uncommitted, the server rolls the transaction back.
Abort(h, resp) ==
    /\ pc' = [pc EXCEPT ![h] = "done"]
    /\ response' = [response EXCEPT ![h] = resp]
    /\ pending' = [pending EXCEPT ![h] = {}]
    /\ superseded' = [superseded EXCEPT ![h] = {}]
    /\ UNCHANGED <<event, idx, txn_now, updated_devices, calls>>
    /\ UNCHANGED <<catalogVars, viewVars, device_state, clock>>

----------------------------------------------------------------------------
(* lambda_handler, one call per handler h *)

\* Single format without device_id or site_id: 400 before any connection.
InvokeRejected(h, ev) ==
    /\ pc[h] = "idle"
    /\ calls < MaxCalls
    /\ ev.kind = "single"
    /\ MissingIds(ev.devices[1])
    /\ pc' = [pc EXCEPT ![h] = "done"]
    /\ event' = [event EXCEPT ![h] = ev]
    /\ response' = [response EXCEPT ![h] =
                      ErrorResponse(400, "device_id and site_id are required", "")]
    /\ calls' = calls + 1
    /\ UNCHANGED <<idx, txn_now, pending, superseded, updated_devices>>
    /\ UNCHANGED <<catalogVars, viewVars, device_state, clock>>

\* psycopg2.connect raises: the store is unreachable.
InvokeConnectFails(h, ev) ==
    /\ pc[h] = "idle"
    /\ calls < MaxCalls
    /\ ~(ev.kind = "single" /\ MissingIds(ev.devices[1]))
    /\ pc' = [pc EXCEPT ![h] = "done"]
    /\ event' = [event EXCEPT ![h] = ev]
    /\ response' = [response EXCEPT ![h] =
                      ErrorResponse(500, "Database error", "connection")]
    /\ calls' = calls + 1
    /\ UNCHANGED <<idx, txn_now, pending, superseded, updated_devices>>
    /\ UNCHANGED <<catalogVars, viewVars, device_state, clock>>

\* Connected; the loop over devices_to_update starts.
InvokeConnected(h, ev) ==
    /\ pc[h] = "idle"
    /\ calls < MaxCalls
    /\ ~(ev.kind = "single" /\ MissingIds(ev.devices[1]))
    /\ pc' = [pc EXCEPT ![h] = "loop"]
    /\ event' = [event EXCEPT ![h] = ev]
    /\ idx' = [idx EXCEPT ![h] = 1]
    /\ updated_devices' = [updated_devices EXCEPT ![h] = <<>>]
    /\ calls' = calls + 1
    /\ UNCHANGED <<txn_now, pending, superseded, response>>
    /\ UNCHANGED <<catalogVars, viewVars, device_state, clock>>

\* Loop body, entry without device_id or site_id: logged, `continue`.
SkipMalformed(h) ==
    /\ HasEntry(h)
    /\ MissingIds(CurrentEntry(h))
    /\ idx' = [idx EXCEPT ![h] = idx[h] + 1]
    /\ updated_devices' = [updated_devices EXCEPT ![h] = NextUpdated(updated_devices[h], CurrentEntry(h))]
    /\ UNCHANGED <<pc, event, txn_now, pending, superseded, response, calls>>
    /\ UNCHANGED <<catalogVars, viewVars, device_state, clock>>

\* The first cursor.execute opens the transaction; NOW() is fixed from here on,
\* also while the statement waits for a row lock.
BeginTxn(h) ==
    /\ HasEntry(h)
    /\ ~MissingIds(CurrentEntry(h))
    /\ txn_now[h] < 0
    /\ txn_now' = [txn_now EXCEPT ![h] = clock]
    /\ UNCHANGED <<pc, event, idx, pending, superseded, updated_devices, response, calls>>
    /\ UNCHANGED <<catalogVars, viewVars, device_state, clock>>

\* INSERT ... ON CONFLICT (device_id) DO UPDATE succeeds for the current entry.
Upsert(h) ==
    /\ HasEntry(h)
    /\ ~MissingIds(CurrentEntry(h))
    /\ txn_now[h] >= 0
    /\ LET e == CurrentEntry(h)
           d == e.device_id
           conf == ConflictRows(h, d)
       IN /\ StatusCheck(e.status)
          /\ RowLockFree(h, d)
          /\ IF conf = {}
             THEN /\ ForeignKeysHold(ProposedRow(e, txn_now[h]), sites, devices)
                  /\ pending' = [pending EXCEPT ![h] = @ \cup {ProposedRow(e, txn_now[h])}]
                  /\ UNCHANGED superseded
             ELSE LET stored == CHOOSE r \in conf : TRUE
                  IN /\ pending' = [pending EXCEPT ![h] =
                                      (@ \ {stored}) \cup {UpdatedRow(stored, e, txn_now[h])}]
                     /\ superseded' = [superseded EXCEPT ![h] =
                                         @ \cup ({stored} \cap device_state)]
          /\ updated_devices' = [updated_devices EXCEPT ![h] = NextUpdated(updated_devices[h], e)]
    /\ idx' = [idx EXCEPT ![h] = idx[h] + 1]
    /\ UNCHANGED <<pc, event, txn_now, response, calls>>
    /\ UNCHANGED <<catalogVars, viewVars, device_state, clock>>

\* The proposed row fails the status CHECK (tested before conflict arbitration):
\* psycopg2.Error, caught by the first except branch.
CheckViolation(h) ==
    /\ HasEntry(h)
    /\ ~MissingIds(CurrentEntry(h))
    /\ txn_now[h] >= 0
    /\ ~StatusCheck(CurrentEntry(h).status)
    /\ Abort(h, ErrorResponse(500, "Database error", "check_violation"))

\* The row was inserted (no conflict) and a foreign key has no referenced row.
ForeignKeyViolation(h) ==
    /\ HasEntry(h)
    /\ ~MissingIds(CurrentEntry(h))
    /\ txn_now[h] >= 0
    /\ LET e == CurrentEntry(h)
       IN /\ StatusCheck(e.status)
          /\ RowLockFree(h, e.device_id)
          /\ ConflictRows(h, e.device_id) = {}
          /\ ~ForeignKeysHold(ProposedRow(e, txn_now[h]), sites, devices)
    /\ Abort(h, ErrorResponse(500, "Database error", "foreign_key_violation"))

\* The server finds h on a lock cycle and cancels its statement.
DeadlockAbort(h) ==
    /\ InDeadlock(h)
    /\ Abort(h, ErrorResponse(500, "Database error", "deadlock_detected"))

\* The connection is lost inside the transaction: the next execute or the
\* commit raises psycopg2.OperationalError.
ConnectionLost(h) ==
    /\ pc[h] = "loop"
    /\ txn_now[h] >= 0
    /\ Abort(h, ErrorResponse(500, "Database error", "connection"))

\* conn.commit() after the loop, then the 200 response.
Commit(h) ==
    /\ pc[h] = "loop"
    /\ idx[h] > Len(event[h].devices)
    /\ device_state' = (device_state \ superseded[h]) \cup pending[h]
    /\ pending' = [pending EXCEPT ![h] = {}]
    /\ superseded' = [superseded EXCEPT ![h] = {}]
    /\ pc' = [pc EXCEPT ![h] = "done"]
    /\ response' = [response EXCEPT ![h] = SuccessResponse(updated_devices[h])]
    /\ UNCHANGED <<event, idx, txn_now, updated_devices, calls>>
    /\ UNCHANGED <<catalogVars, viewVars, clock>>

\* The response has been delivered; the handler can be invoked again.
Return(h) ==
    /\ pc[h] = "done"
    /\ pc' = [pc EXCEPT ![h] = "idle"]
    /\ event' = [event EXCEPT ![h] = NoEvent]
    /\ idx' = [idx EXCEPT ![h] = 1]
    /\ txn_now' = [txn_now EXCEPT ![h] = -1]
    /\ updated_devices' = [updated_devices EXCEPT ![h] = <<>>]
    /\ response' = [response EXCEPT ![h] = NoResponse]
    /\ UNCHANGED <<pending, superseded, calls>>
    /\ UNCHANGED <<catalogVars, viewVars, device_state, clock>>

Tick(limit) ==
    /\ clock < limit
    /\ clock' = clock + 1
    /\ UNCHANGED <<catalogVars, viewVars, device_state, handlerVars>>

----------------------------------------------------------------------------
(* Catalog: DELETE FROM sites and its ON DELETE CASCADE closure *)

DevicesOfSite(s) == {d.device_id : d \in {x \in devices : x.site_id = s}}
PointsGone(s) == {p.point_id : p \in {x \in points : x.site_id = s \/ x.device_id \in DevicesOfSite(s)}}

DeleteSite(s) ==
    /\ s \in sites
    \* rows written by an open transaction pin the rows they reference, and a
    \* locked device_state row cannot be deleted: the DELETE waits.
    /\ \A h \in Handlers : \A r \in pending[h] :
          r.site_id # s /\ r.device_id \notin DevicesOfSite(s)
    /\ sites' = sites \ {s}
    /\ devices' = {d \in devices : d.site_id # s}
    /\ points' = {p \in points : p.point_id \notin PointsGone(s)}
    /\ measurements' = {m \in measurements : m.site_id # s /\ m.point_id \notin PointsGone(s)}
    /\ device_state' = {r \in device_state : r.site_id # s /\ r.device_id \notin DevicesOfSite(s)}
    /\ UNCHANGED <<viewVars, clock, handlerVars>>

----------------------------------------------------------------------------
Next ==
    \/ \E h \in Handlers, ev \in Events : InvokeRejected(h, ev)
    \/ \E h \in Handlers, ev \in Events : InvokeConnectFails(h, ev)
    \/ \E h \in Handlers, ev \in Events : InvokeConnected(h, ev)
    \/ \E h \in Handlers : SkipMalformed(h)
    \/ \E h \in Handlers : BeginTxn(h)
    \/ \E h \in Handlers : Upsert(h)
    \/ \E h \in Handlers : CheckViolation(h)
    \/ \E h \in Handlers : ForeignKeyViolation(h)
    \/ \E h \in Handlers : DeadlockAbort(h)
    \/ \E h \in Handlers : ConnectionLost(h)
    \/ \E h \in Handlers : Commit(h)
    \/ \E h \in Handlers : Return(h)
    \/ \E s \in SeedSites : DeleteSite(s)
    \/ Tick(MaxClock)

Spec == Init /\ [][Next]_vars

----------------------------------------------------------------------------
(* Stale-devices listing: v_devices_stale, read as query_device_state does *)

\* v_devices_stale at time now.
StaleView_AtThreshold(table, now) ==
    {[device_id |-> r.device_id, site_id |-> r.site_id,
      last_seen_ts |-> r.last_seen_ts, age |-> now - r.last_seen_ts] :
        r \in {x \in table : now - x.last_seen_ts >= StaleThreshold}}
StaleView(table, now) ==
    {[device_id |-> r.device_id, site_id |-> r.site_id,
      last_seen_ts |-> r.last_seen_ts, age |-> now - r.last_seen_ts] :
        r \in {x \in table : now - x.last_seen_ts > StaleThreshold}}

\* ORDER BY age DESC: every arrangement of the rows with ages descending
\* (rows of equal age come in either order).
OrderByAgeDesc(rows) ==
    {q \in [1..Cardinality(rows) -> rows] :
        /\ \A i \in DOMAIN q : \A j \in DOMAIN q : i # j => q[i] # q[j]
        /\ \A i \in DOMAIN q : \A j \in DOMAIN q : i < j => q[i].age >= q[j].age}

QueryStale ==
    /\ \E q \in OrderByAgeDesc(StaleView(device_state, clock)) :
          stale_rows' = [queried |-> TRUE, now |-> clock, rows |-> q]
    /\ UNCHANGED <<catalogVars, v_point_latest, device_state, clock, handlerVars>>

\* device_state as heartbeats at times up to MaxSeen have left it.
SeenTables ==
    {t1 \cup t2 :
        t1 \in {{}} \cup {{ProposedRow(HbFull, t)} : t \in 0..MaxSeen},
        t2 \in {{}} \cup {{ProposedRow(HbOther, t)} : t \in 0..MaxSeen}}

InitStale ==
    /\ sites = SeedSites
    /\ devices = SeedDevices
    /\ points = SeedPoints
    /\ measurements = SeedMeasurements
    /\ clock \in 0..MaxSeen
    /\ device_state \in {t \in SeenTables : \A r \in t : r.last_seen_ts <= clock}
    /\ v_point_latest = {}
    /\ stale_rows = NotQueried
    /\ NoCallYet

NextStale ==
    \/ QueryStale
    \/ Tick(StaleThreshold + MaxSeen + 1)

SpecStale == InitStale /\ [][NextStale]_vars

----------------------------------------------------------------------------
(* Measurement log and the materialized view v_point_latest *)

\* Sites of the measurement log's runs: the seeded one and a second one.
LogSites == SeedSites \cup {"s2"}

InitLatest ==
    /\ sites = LogSites
    /\ devices = SeedDevices
    /\ points = SeedPoints
    /\ measurements = SeedMeasurements
    /\ device_state = {}
    /\ v_point_latest = {}
    /\ stale_rows = NotQueried
    /\ clock = 0
    /\ NoCallYet

MeasurementInputs ==
    [site_id : LogSites, point_id : {"p1", "p2", "p7"}, ts_utc : 0..MaxTs,
     value : {"20.5", "21.0"}]

\* INSERT INTO measurements, under the table's primary key and foreign keys.
InsertMeasurement(m) ==
    /\ \A x \in measurements :
          ~(x.site_id = m.site_id /\ x.point_id = m.point_id /\ x.ts_utc = m.ts_utc)
    /\ m.site_id \in sites
    /\ m.point_id \in {p.point_id : p \in points}
    /\ measurements' = measurements \cup {m}
    /\ UNCHANGED <<sites, devices, points, viewVars, device_state, clock, handlerVars>>

\* Rows of point p that ORDER BY m.point_id, m.ts_utc DESC can put first.
FirstRows(log, p) ==
    {m \in log : m.point_id = p /\ \A x \in log : x.point_id = p => x.ts_utc <= m.ts_utc}

\* Results of SELECT DISTINCT ON (m.point_id) ... ORDER BY m.point_id,
\* m.ts_utc DESC: one row per point; among rows of equal ts_utc the ORDER BY
\* leaves the first one open.
DistinctOnResults(log) ==
    LET pts == {m.point_id : m \in log}
    IN {v \in SUBSET log :
          /\ \A p \in pts : \E m \in v : m.point_id = p
          /\ \A m \in v : m \in FirstRows(log, m.point_id)
          /\ \A m1 \in v : \A m2 \in v : m1.point_id = m2.point_id => m1 = m2}

\* REFRESH MATERIALIZED VIEW v_point_latest
RefreshPointLatest ==
    /\ v_point_latest' \in DistinctOnResults(measurements)
    /\ UNCHANGED <<catalogVars, stale_rows, device_state, clock, handlerVars>>

NextLatest ==
    \/ \E m \in MeasurementInputs : InsertMeasurement(m)
    \/ RefreshPointLatest
    \/ \E s \in LogSites : DeleteSite(s)

SpecLatest == InitLatest /\ [][NextLatest]_vars

----------------------------------------------------------------------------
(* Heartbeats of one device under two registered sites *)

\* Events whose entries name d1 with its own site and with the other site.
SiteEvents ==
    {[kind |-> "single", devices |-> <<e>>] : e \in {HbFull, HbMoved}}
      \cup {[kind |-> "batch", devices |-> b] :
               b \in { <<HbFull, HbMoved>>, <<HbMoved, HbStatusOnly>> }}

\* The handler's steps that well-formed entries with a valid status for a
\* single device can take, with both sites registered at the start.
NextSite ==
    \/ \E h \in Handlers, ev \in SiteEvents : InvokeConnectFails(h, ev)
    \/ \E h \in Handlers, ev \in SiteEvents : InvokeConnected(h, ev)
    \/ \E h \in Handlers : BeginTxn(h)
    \/ \E h \in Handlers : Upsert(h)
    \/ \E h \in Handlers : ForeignKeyViolation(h)
    \/ \E h \in Handlers : ConnectionLost(h)
    \/ \E h \in Handlers : Commit(h)
    \/ \E h \in Handlers : Return(h)
    \/ \E s \in LogSites : DeleteSite(s)
    \/ Tick(MaxClock)

SpecSite == InitLatest /\ [][NextSite]_vars

----------------------------------------------------------------------------
(* Vocabulary of the properties *)

IsWellFormed(e) == e.device_id # NULL /\ e.site_id # NULL

WfIndices(ev) == {i \in 1..Len(ev.devices) : IsWellFormed(ev.devices[i])}

WfDeviceIds(ev) ==
    LET wf == SelectSeq(ev.devices, IsWellFormed)
    IN [i \in 1..Len(wf) |-> wf[i].device_id]

RowsOf(table, d) == {r \in table : r.device_id = d}

MaxOf(S) == CHOOSE x \in S : \A y \in S : y <= x

\* h's call commits in this step and answers 200.
Commits(h) == pc[h] = "loop" /\ pc'[h] = "done" /\ response'[h].statusCode = 200

\* h's call ends in this step, whatever the answer.
Ends(h) == pc[h] # "done" /\ pc'[h] = "done"

\* What field f of device d must hold after h's call: the last value the call
\* supplied for it, else what was stored before the call, else nothing.
FieldAfterCall(h, d, f, before) ==
    LET ev == event[h]
        supplied == {i \in WfIndices(ev) : ev.devices[i].device_id = d /\ ev.devices[i][f] # NULL}
    IN IF supplied # {} THEN ev.devices[MaxOf(supplied)][f]
       ELSE IF before = {} THEN NULL
       ELSE (CHOOSE r \in before : TRUE)[f]

\* C1: after every successful heartbeat call, the row of each reconciled
\* device has last_seen_ts and updated_at equal to the NOW() of the call, and
\* each optional field holds the value the call supplied, or else exactly the
\* value stored before the call.
C1_CoalesceMerge ==
    [][\A h \in Handlers : Commits(h) =>
         \A i \in WfIndices(event[h]) :
            LET d == event[h].devices[i].device_id
                before == RowsOf(device_state, d)
                after == RowsOf(device_state', d)
            IN /\ after # {}
               /\ \A r \in after :
                    /\ r.last_seen_ts = txn_now[h]
                    /\ r.updated_at = txn_now[h]
                    /\ txn_now[h] \in 0..clock
                    /\ \A f \in OptionalFields : r[f] = FieldAfterCall(h, d, f, before)]_vars

\* C1 witness: a status-only heartbeat has been applied at a later time to a
\* row whose agent_version came from an earlier heartbeat.
C1_Witness ==
    \E h \in Handlers :
        /\ pc[h] = "done" /\ response[h].statusCode = 200
        /\ event[h] = [kind |-> "single", devices |-> <<HbStatusOnly>>]
        /\ \E r \in device_state :
              /\ r.device_id = "d1" /\ r.status = "degraded"
              /\ r.agent_version = "1.0.0" /\ r.cpu_pct = "25.5"
              /\ r.last_seen_ts = 1 /\ txn_now[h] = 1

\* C2: a batch is never answered 400, skipping an entry touches no storage,
\* and a batch that commits has reconciled every well-formed entry and reports
\* exactly their device ids, in order, with count equal to the list's length.
C2_BatchSkip ==
    [][\A h \in Handlers :
         /\ (Ends(h) /\ event'[h].kind = "batch") => response'[h].statusCode # 400
         /\ (pc[h] = "loop" /\ pc'[h] = "loop" /\ idx'[h] # idx[h]
               /\ ~IsWellFormed(event[h].devices[idx[h]]))
              => /\ pending'[h] = pending[h] /\ device_state' = device_state
                 /\ updated_devices'[h] = updated_devices[h]
         /\ (Commits(h) /\ event[h].kind = "batch")
              => /\ response'[h].updated_devices = WfDeviceIds(event[h])
                 /\ response'[h].count = Len(WfDeviceIds(event[h]))
                 /\ \A i \in WfIndices(event[h]) :
                       \E r \in device_state' :
                          /\ r.device_id = event[h].devices[i].device_id
                          /\ r.last_seen_ts = txn_now[h]]_vars

\* C2 witness: the batch with one well-formed entry between two malformed
\* ones has been answered 200 with that entry alone.
C2_Witness ==
    \E h \in Handlers :
        /\ pc[h] = "done" /\ response[h].statusCode = 200
        /\ event[h].devices = <<HbNoSiteId, HbOther, HbNoDeviceId>>
        /\ response[h].updated_devices = <<"d2">> /\ response[h].count = 1
        /\ \E r \in device_state : r.device_id = "d2" /\ r.queue_depth = "10"

\* C3: device_state never holds two rows for one device id, and a call that
\* reconciles a device without a row leaves exactly one row for it, holding
\* the supplied fields and NULL in every optional field it did not supply.
C3_OneRowPerDevice ==
    /\ [](\A r1 \in device_state : \A r2 \in device_state :
             r1.device_id = r2.device_id => r1 = r2)
    /\ [][\A h \in Handlers : Commits(h) =>
            \A i \in WfIndices(event[h]) :
               LET d == event[h].devices[i].device_id
               IN RowsOf(device_state, d) = {} =>
                    /\ Cardinality(RowsOf(device_state', d)) = 1
                    /\ \A r \in RowsOf(device_state', d) : \A f \in OptionalFields :
                          /\ (\A j \in WfIndices(event[h]) :
                                event[h].devices[j].device_id = d => event[h].devices[j][f] = NULL)
                               => r[f] = NULL
                          /\ event[h].devices[i][f] # NULL => r[f] # NULL]_vars

\* C3 witness: a first heartbeat created d1's row with its unsupplied fields
\* NULL while another call's first heartbeat for d1 was already in its
\* transaction.
C3_Witness ==
    \E h \in Handlers : \E g \in Handlers \ {h} :
        /\ pc[h] = "done" /\ response[h].statusCode = 200
        /\ event[h] = [kind |-> "single", devices |-> <<HbStatusOnly>>]
        /\ device_state = {ProposedRow(HbStatusOnly, txn_now[h])}
        /\ pc[g] = "loop" /\ txn_now[g] >= 0 /\ idx[g] = 1
        /\ event[g] = [kind |-> "single", devices |-> <<HbFull>>]

RECURSIVE ApplyInOrder(_, _, _, _)
\* The rows of device d after the reconciliations of d in entries, one after
\* another, starting from rows.
ApplyInOrder(rows, entries, d, now) ==
    IF entries = <<>> THEN rows
    ELSE LET e == Head(entries)
         IN IF ~IsWellFormed(e) \/ e.device_id # d
            THEN ApplyInOrder(rows, Tail(entries), d, now)
            ELSE ApplyInOrder(
                   IF rows = {} THEN {ProposedRow(e, now)}
                   ELSE {UpdatedRow(CHOOSE r \in rows : TRUE, e, now)},
                   Tail(entries), d, now)

\* C4: a commit leaves each device's row equal to the call's reconciliations
\* applied, in order, to the row committed just before it, and leaves every
\* other device's row alone: overlapping calls act one after another in commit
\* order and none writes back a stale read.
C4_NoLostUpdate ==
    [][\A h \in Handlers : Commits(h) =>
         \A d \in {"d1", "d2", "d3"} :
            RowsOf(device_state', d) =
               ApplyInOrder(RowsOf(device_state, d), event[h].devices, d, txn_now[h])]_vars

\* C4 witness: the status-only call opened its transaction first (NOW() = 0),
\* the full call opened later (NOW() = 1) and committed first; the row holds
\* the full call's agent_version and the status-only call's status.
C4_Witness ==
    \E h \in Handlers : \E g \in Handlers \ {h} :
        /\ pc[h] = "done" /\ response[h].statusCode = 200
        /\ pc[g] = "done" /\ response[g].statusCode = 200
        /\ event[h] = [kind |-> "single", devices |-> <<HbStatusOnly>>]
        /\ event[g] = [kind |-> "single", devices |-> <<HbFull>>]
        /\ txn_now[h] = 0 /\ txn_now[g] = 1
        /\ \E r \in device_state :
              /\ r.device_id = "d1" /\ r.status = "degraded"
              /\ r.agent_version = "1.0.0" /\ r.last_seen_ts = 0

\* C5: no call waits for a row lock whose holder is at work on a different
\* device, and no call is ended by a deadlock.
C5_NoCrossDeviceWait ==
    \A h \in Handlers :
        /\ response[h].message # "deadlock_detected"
        /\ \A g \in Handlers :
              WaitsFor(h, g) =>
                 ~(/\ HasEntry(g)
                   /\ IsWellFormed(CurrentEntry(g))
                   /\ CurrentEntry(g).device_id # CurrentEntry(h).device_id)

\* The deadlock half of C5 alone: no call is answered with a deadlock error.
C5_NoDeadlock == \A h \in Handlers : response[h].message # "deadlock_detected"

InvalidHeartbeat(ev) ==
    \/ ev.kind = "single" /\ ~IsWellFormed(ev.devices[1])
    \/ \E i \in WfIndices(ev) : ev.devices[i].status \notin StatusEnum \cup {NULL}

\* C6: with the store reachable, a call invoked with an invalid heartbeat is
\* answered with the validation error (400), never with the answer given for
\* a database error, and a stored status is one of the three values or NULL.
C6_ValidationRejected ==
    /\ \A h \in Handlers :
          (/\ pc[h] = "done"
           /\ InvalidHeartbeat(event[h])
           /\ response[h].message \notin {"connection", "deadlock_detected", "foreign_key_violation"})
             => /\ response[h].statusCode = 400
                /\ response[h].error # "Database error"
    /\ \A r \in device_state : r.status \in StatusEnum \cup {NULL}

Reported(h) == {response[h].updated_devices[i] : i \in 1..Len(response[h].updated_devices)}

\* C7: when the store rejects an entry of a batch, every other entry of the
\* batch that is well formed, names a registered device and site and carries a
\* valid status is still reported as updated.
C7_PerEntryIndependent ==
    \A h \in Handlers :
        (/\ pc[h] = "done"
         /\ event[h].kind = "batch"
         /\ response[h].message \in {"check_violation", "foreign_key_violation"})
           => \A i \in WfIndices(event[h]) :
                 LET e == event[h].devices[i]
                 IN (/\ e.device_id \in DeviceIds(devices)
                     /\ e.site_id \in sites
                     /\ StatusCheck(e.status))
                      => e.device_id \in Reported(h)

ReferencesResolve ==
    /\ \A d \in devices : d.site_id \in sites
    /\ \A p \in points : /\ p.site_id \in sites
                         /\ p.device_id = NULL \/ p.device_id \in DeviceIds(devices)
    /\ \A m \in measurements : /\ m.site_id \in sites
                               /\ m.point_id \in {p.point_id : p \in points}
    /\ \A r \in device_state : /\ r.device_id \in DeviceIds(devices)
                               /\ r.site_id \in sites

\* C8: every reference resolves, and no heartbeat naming a device id or site
\* id that was never in the catalog is answered as updated.
C8_ReferentialIntegrity ==
    /\ ReferencesResolve
    /\ \A h \in Handlers :
          (pc[h] = "done" /\ response[h].statusCode = 200)
            => \A i \in WfIndices(event[h]) :
                  /\ event[h].devices[i].device_id \in DeviceIds(SeedDevices)
                  /\ event[h].devices[i].site_id \in SeedSites

\* C9: a stale-devices query changes nothing it reads, and returns exactly
\* the devices last seen more than 120 seconds before the query's now(), once
\* each, with age = now() - last_seen_ts, ages descending; a device last seen
\* 121 seconds ago is listed and one last seen 119 seconds ago is not.
C9_StaleListing ==
    /\ [](stale_rows.queried =>
            LET now == stale_rows.now
                rows == stale_rows.rows
                listed == {rows[i].device_id : i \in 1..Len(rows)}
            IN /\ listed = {r.device_id : r \in {x \in device_state : now - x.last_seen_ts > 120}}
               /\ Len(rows) = Cardinality(listed)
               /\ \A i \in 1..Len(rows) :
                     /\ rows[i].age > 120
                     /\ \E r \in device_state :
                           /\ r.device_id = rows[i].device_id
                           /\ r.site_id = rows[i].site_id
                           /\ r.last_seen_ts = rows[i].last_seen_ts
                           /\ rows[i].age = now - r.last_seen_ts
               /\ \A i \in 1..Len(rows) : \A j \in 1..Len(rows) :
                     i < j => rows[i].age >= rows[j].age
               /\ \A r \in device_state :
                     /\ now - r.last_seen_ts = 121 => r.device_id \in listed
                     /\ now - r.last_seen_ts = 119 => r.device_id \notin listed)
    /\ [][stale_rows' # stale_rows =>
            UNCHANGED <<catalogVars, device_state, v_point_latest, clock>>]_vars

\* C9 witness: a query listed a device last seen 121 seconds before it and
\* left out one last seen 119 seconds before it.
C9_Witness ==
    /\ stale_rows.queried
    /\ Len(stale_rows.rows) = 1
    /\ stale_rows.rows[1].age = 121
    /\ \E r \in device_state : stale_rows.now - r.last_seen_ts = 119

\* C9 second witness: two stale devices listed, the older first.
C9_WitnessOrdered ==
    /\ stale_rows.queried
    /\ Len(stale_rows.rows) = 2
    /\ stale_rows.rows[1].age > stale_rows.rows[2].age

\* C10: the view holds one row per point that has measurements, a row of
\* maximum ts_utc, and recomputing it over an unchanged measurement log
\* yields the same rows.
C10_LatestDeterministic ==
    [][(/\ measurements' = measurements
        /\ v_point_latest \in DistinctOnResults(measurements))
         => {<<m.point_id, m.ts_utc, m.value>> : m \in v_point_latest'}
              = {<<m.point_id, m.ts_utc, m.value>> : m \in v_point_latest}]_vars

\* The part of C10 that does not depend on ties: a refreshed view has exactly
\* one row per point with measurements, and it has the maximum ts_utc.
C10_OneLatestRowPerPoint ==
    [][v_point_latest' # v_point_latest =>
         /\ {m.point_id : m \in v_point_latest'} = {m.point_id : m \in measurements}
         /\ \A m \in v_point_latest' :
               /\ m \in measurements
               /\ \A x \in measurements : x.point_id = m.point_id => x.ts_utc <= m.ts_utc
               /\ \A x \in v_point_latest' : x.point_id = m.point_id => x = m]_vars

\* The site_id the first reconciliation of device d in event ev supplies.
FirstSiteId(ev, d) ==
    LET first == CHOOSE i \in WfIndices(ev) :
                    /\ ev.devices[i].device_id = d
                    /\ \A j \in WfIndices(ev) : ev.devices[j].device_id = d => i <= j
    IN ev.devices[first].site_id

\* C11: a committing call leaves the site_id of every device it reconciled
\* as it was stored before the call, whatever site_id its heartbeats carried,
\* and reports the device as updated; only a device without a row gets the
\* site_id of the call's first heartbeat for it. The store rejects a
\* heartbeat for its references only when the device has no row yet.
C11_SiteIdKept ==
    [][\A h \in Handlers :
         /\ Commits(h) =>
               \A i \in WfIndices(event[h]) :
                  LET d == event[h].devices[i].device_id
                      before == RowsOf(device_state, d)
                      after == RowsOf(device_state', d)
                  IN /\ after # {}
                     /\ \E k \in 1..Len(response'[h].updated_devices) :
                           response'[h].updated_devices[k] = d
                     /\ \A r \in after :
                           r.site_id = IF before # {}
                                       THEN (CHOOSE b \in before : TRUE).site_id
                                       ELSE FirstSiteId(event[h], d)
         /\ (Ends(h) /\ response'[h].message = "foreign_key_violation") =>
               /\ RowsOf(device_state, CurrentEntry(h).device_id) = {}
               /\ CurrentEntry(h).device_id \notin Locked(h)]_vars

\* C11 witness: d1's row was created under site s1; a later call whose
\* heartbeat for d1 carried the registered site s2 was answered 200 with d1
\* reported, its status was stored, and the row still names site s1.
C11_Witness ==
    \E h \in Handlers :
        /\ pc[h] = "done" /\ response[h].statusCode = 200
        /\ event[h] = [kind |-> "single", devices |-> <<HbMoved>>]
        /\ response[h].updated_devices = <<"d1">>
        /\ "s2" \in sites
        /\ \E r \in device_state :
              /\ r.device_id = "d1" /\ r.site_id = "s1"
              /\ r.status = "error" /\ r.agent_version = "1.0.0"
              /\ r.last_seen_ts = txn_now[h]

\* C11 second witness: a first heartbeat carrying s2 created d1's row under
\* s2, and the same call's next heartbeat carrying s1 left it there.
C11_WitnessCreated ==
    \E h \in Handlers :
        /\ pc[h] = "done" /\ response[h].statusCode = 200
        /\ event[h].devices = <<HbMoved, HbStatusOnly>>
        /\ \E r \in device_state :
              r.device_id = "d1" /\ r.site_id = "s2" /\ r.status = "degraded"

====
